---- MODULE Spec2Model ----
(***************************************************************************)
(* Model of src/lut_analyze_module.py: the orbit generator                 *)
(* (generate_module_configurations), the expansion of a k-input LUT into   *)
(* the full address space (expand_k_lut) and the matching loop of main().  *)
(*                                                                         *)
(* Python integers used as truth tables are unbounded bit vectors.  An     *)
(* integer n is represented by the set of the positions of its 1 bits, so  *)
(* (n >> i) & 1 is membership of i, n |= (1 << i) adds i, and              *)
(* (1 << N) - 1 is the set 0..N-1.  Equality of integers is equality of    *)
(* these sets.                                                             *)
(*                                                                         *)
(* The source fixes the number of wire positions to 8 (range(8), 256       *)
(* addresses, 8! permutations).  The algorithms are uniform in that        *)
(* number; the model runs them over NumWires wire positions.               *)
(***************************************************************************)
EXTENDS Integers, Sequences, FiniteSets, TLC

NumWires == 4
MaxBatch == 2

Wires == 0 .. (NumWires - 1)
Addrs == 0 .. ((2 ^ NumWires) - 1)

\* (addr >> pos) & 1 on an address
AddrBit(addr, pos) == (addr \div (2 ^ pos)) % 2

\* (n >> i) & 1 on a truth-table integer
BitOf(n, at) == IF at \in n THEN 1 ELSE 0

\* (1 << 256) - 1
AllOnes == Addrs

(***************************************************************************)
(* Base functions handed to generate_module_configurations.  The source    *)
(* has two 8-input cells built from 2:1 selections; the model uses base    *)
(* functions over NumWires wires, written like the source's, as the set    *)
(* of addresses whose output bit is 1.                                     *)
(***************************************************************************)
\* f1 = A1 if SA else A0
MuxBase ==
  {addr \in Addrs :
     (IF AddrBit(addr, 2) = 1 THEN AddrBit(addr, 1) ELSE AddrBit(addr, 0)) = 1}

\* A0 and B0
AndBase == {addr \in Addrs : AddrBit(addr, 0) = 1 /\ AddrBit(addr, 1) = 1}

\* the same cell with its two inputs on wires 2 and 3
And23Base == {addr \in Addrs : AddrBit(addr, 2) = 1 /\ AddrBit(addr, 3) = 1}

\* constant 1
OnesBase == Addrs

\* (w0 and not w2) or (w1 and not w3)
PairBase ==
  {addr \in Addrs :
     \/ (AddrBit(addr, 0) = 1 /\ AddrBit(addr, 2) = 0)
     \/ (AddrBit(addr, 1) = 1 /\ AddrBit(addr, 3) = 0)}

\* w0 and (w1 or (w2 and not w3))
ChainBase ==
  {addr \in Addrs :
     /\ AddrBit(addr, 0) = 1
     /\ \/ AddrBit(addr, 1) = 1
        \/ (AddrBit(addr, 2) = 1 /\ AddrBit(addr, 3) = 0)}

\* w1 if any of the wires from 2 up is set, else w0: the selection of lines
\* 44-45, s2 = not (S0 or S1), over every wire the run has
SelectBase ==
  {addr \in Addrs :
     (IF \E w \in Wires : w >= 2 /\ AddrBit(addr, w) = 1
      THEN AddrBit(addr, 1) ELSE AddrBit(addr, 0)) = 1}

\* the conjunction of every wire
EveryWireBase == {addr \in Addrs : \A w \in Wires : AddrBit(addr, w) = 1}

\* the pairs (c1 base, c2 base) the runs start from
Catalogs ==
  { <<MuxBase, MuxBase>>, <<AndBase, And23Base>>, <<AndBase, ChainBase>>,
    <<PairBase, OnesBase>>, <<ChainBase, AndBase>>,
    <<SelectBase, EveryWireBase>> }

(***************************************************************************)
(* The two reference cells at the source's own size: 8 wires, 256          *)
(* addresses.                                                              *)
(***************************************************************************)
SourceWires == 8
SourceAddrs == 0 .. ((2 ^ SourceWires) - 1)

\* c1 with s2 = not S0: S1 left out of the selection
generate_c1_base_without_S1 ==
  {addr \in SourceAddrs :
     LET A0 == AddrBit(addr, 0)
         A1 == AddrBit(addr, 1)
         SA == AddrBit(addr, 2)
         B0 == AddrBit(addr, 3)
         B1 == AddrBit(addr, 4)
         SB == AddrBit(addr, 5)
         S0 == AddrBit(addr, 6)
         f1 == IF SA = 1 THEN A1 ELSE A0
         f2 == IF SB = 1 THEN B1 ELSE B0
         s2 == ~(S0 = 1)
         f == IF s2 THEN f2 ELSE f1
     IN f = 1}

generate_c1_base_truth_table ==
  {addr \in SourceAddrs :
     LET A0 == AddrBit(addr, 0)
         A1 == AddrBit(addr, 1)
         SA == AddrBit(addr, 2)
         B0 == AddrBit(addr, 3)
         B1 == AddrBit(addr, 4)
         SB == AddrBit(addr, 5)
         S0 == AddrBit(addr, 6)
         S1 == AddrBit(addr, 7)
         f1 == IF SA = 1 THEN A1 ELSE A0
         f2 == IF SB = 1 THEN B1 ELSE B0
         s2 == ~(S0 = 1 \/ S1 = 1)
         f == IF s2 THEN f2 ELSE f1
     IN f = 1}

generate_c2_base_truth_table ==
  {addr \in SourceAddrs :
     LET D00 == AddrBit(addr, 0)
         D01 == AddrBit(addr, 1)
         D10 == AddrBit(addr, 2)
         D11 == AddrBit(addr, 3)
         A1 == AddrBit(addr, 4)
         B1 == AddrBit(addr, 5)
         A0 == AddrBit(addr, 6)
         B0 == AddrBit(addr, 7)
         s1 == ~(A1 = 1 \/ B1 = 1)
         s0 == ~(A0 = 1 /\ B0 = 1)
         out == IF s1 /\ s0 THEN D11
                ELSE IF s1 /\ ~s0 THEN D10
                ELSE IF ~s1 /\ s0 THEN D01
                ELSE D00
     IN out = 1}

(***************************************************************************)
(* itertools.permutations(range(n), k): the k-tuples of distinct elements  *)
(* of the pool in lexicographic order; empty when k exceeds the pool.      *)
(* Tuples are 1-indexed here: Python's p[i] is p[i+1].                     *)
(***************************************************************************)
Prepend(x, list) == [n \in 1 .. Len(list) |-> <<x>> \o list[n]]

RECURSIVE permutations(_, _), PermsStartingAt(_, _, _)
PermsStartingAt(pool, k, x) ==
  IF x > NumWires - 1 THEN << >>
  ELSE (IF x \in pool THEN Prepend(x, permutations(pool \ {x}, k - 1)) ELSE << >>)
       \o PermsStartingAt(pool, k, x + 1)

permutations(pool, k) ==
  IF k = 0 THEN << << >> >> ELSE PermsStartingAt(pool, k, 0)

(***************************************************************************)
(* generate_module_configurations                                          *)
(***************************************************************************)
\* inv_p = [0] * 8; for i in range(8): inv_p[p[i]] = i
RECURSIVE InvFill(_, _, _)
InvFill(p, step, inv) ==
  IF step = NumWires THEN inv
  ELSE InvFill(p, step + 1, [inv EXCEPT ![p[step + 1]] = step])

\* the fill loop left out: inv_p stays [0] * 8
inv_p_unfilled(p) == [j \in Wires |-> 0]

inv_p(p) == InvFill(p, 0, [j \in Wires |-> 0])

\* old_addr = 0; for j in range(8): old_addr |= ((new_addr >> inv_p[j]) & 1) << j
RECURSIVE OldAddrFrom(_, _, _)
OldAddrFrom(new_addr, inv, j) ==
  IF j = NumWires THEN 0
  ELSE AddrBit(new_addr, inv[j]) * (2 ^ j) + OldAddrFrom(new_addr, inv, j + 1)

\* the bit put back at the position it was read from: (bit << inv_p[j])
old_addr_unmoved(new_addr, inv) == new_addr

old_addr(new_addr, inv) == OldAddrFrom(new_addr, inv, 0)

\* perm_int: bit new_addr is bit old_addr of base_int
perm_int(base_int, p) ==
  LET inv == inv_p(p)
  IN {new_addr \in Addrs : BitOf(base_int, old_addr(new_addr, inv)) = 1}

\* itertools.combinations(range(8), 8) in place of permutations: one tuple
GeneratorCombinations == << [n \in 1 .. NumWires |-> n - 1] >>

\* the permutations the generator sweeps
GeneratorPermutations == permutations(Wires, NumWires)

generate_module_configurations(base_int) ==
  {perm_int(base_int, GeneratorPermutations[n]) :
     n \in 1 .. Len(GeneratorPermutations)}

(***************************************************************************)
(* expand_k_lut                                                            *)
(***************************************************************************)
\* index = 0; for i, pos in enumerate(assignment): index |= ((addr >> pos) & 1) << i
RECURSIVE IndexFrom(_, _, _)
IndexFrom(addr, assignment, step) ==
  IF step = Len(assignment) THEN 0
  ELSE AddrBit(addr, assignment[step + 1]) * (2 ^ step) + IndexFrom(addr, assignment, step + 1)

\* the index assembled most significant bit first:
\* index |= bit << (k - 1 - i)
RECURSIVE IndexFromMsb(_, _, _)
IndexFromMsb(addr, assignment, step) ==
  IF step = Len(assignment) THEN 0
  ELSE AddrBit(addr, assignment[step + 1]) * (2 ^ (Len(assignment) - 1 - step))
         + IndexFromMsb(addr, assignment, step + 1)

index_of_msb_first(addr, assignment) == IndexFromMsb(addr, assignment, 0)

\* the index read from the k low wires, whatever the assignment:
\* bit = (addr >> i) & 1
index_of_low_wires(addr, assignment) == addr % (2 ^ Len(assignment))

index_of(addr, assignment) == IndexFrom(addr, assignment, 0)

\* the table read one place too high: (constant >> (index + 1)) & 1
bit_output_shifted(constant, k, index) ==
  IF index < 2 ^ k THEN BitOf(constant, index + 1) ELSE 0

\* the range test written against k: index < k
bit_output_index_below_k(constant, k, index) ==
  IF index < k THEN BitOf(constant, index) ELSE 0

\* bit_output of one address
bit_output(constant, k, index) ==
  IF index < 2 ^ k THEN BitOf(constant, index) ELSE 0

expand_k_lut(constant, k, assignment) ==
  {addr \in Addrs : bit_output(constant, k, index_of(addr, assignment)) = 1}

(***************************************************************************)
(* The (k, const_int) pairs parse_verilog_luts delivers.                   *)
(***************************************************************************)
\* 4'h8: the 2-input AND
AndConst == {3}

\* widths 0, 2, the full width and one more than the wires
Candidates(b1) ==
  { <<0, {0}>>, <<0, {}>>, <<2, AndConst>>, <<NumWires, b1>>, <<NumWires + 1, {0}>> }

RECURSIVE Batches(_, _)
Batches(cands, n) ==
  IF n = 0 THEN { << >> }
  ELSE LET shorter == Batches(cands, n - 1)
       IN shorter \cup {Append(b, c) : b \in {s \in shorter : Len(s) = n - 1}, c \in cands}

(***************************************************************************)
(* main()                                                                  *)
(***************************************************************************)
VARIABLES
  pc,             \* position in main()
  c1_base,        \* the table generate_c1_base_truth_table returns
  c2_base,        \* the table generate_c2_base_truth_table returns
  c1_configs,
  c2_configs,
  verilog_luts,
  i,              \* index of the LUT being processed
  assignments,
  tried,          \* number of assignments the inner loop has consumed
  expanded,
  found_c1,
  found_c2,
  c1_match,
  c2_match,
  c1_count,
  c2_count,
  both_count,
  total_configs,
  non_count,
  checks_c1,      \* membership tests against c1_configs for this LUT
  checks_c2,      \* membership tests against c2_configs for this LUT
  lut_info,       \* new_flow.py: the LUT instance handed to map_lut2_to_c1
  net,            \* the value each input signal carries
  c1_instance     \* new_flow.py: what map_lut2_to_c1 returned

vars ==
  << pc, c1_base, c2_base, c1_configs, c2_configs, verilog_luts, i, assignments,
     tried, expanded, found_c1, found_c2, c1_match, c2_match, c1_count, c2_count,
     both_count, total_configs, non_count, checks_c1, checks_c2, lut_info, net,
     c1_instance >>

\* the state of new_flow.py, untouched by the analyzer
flowvars == << lut_info, net, c1_instance >>

\* a signal is a name with a bit index, -1 for a scalar net
Signals == { <<"a", -1>>, <<"b", -1>>, <<"x", 0>>, <<"x", 1>>, <<"x", 2>> }

\* no LUT handed over and nothing returned
FlowIdle ==
  /\ lut_info = [width |-> 0]
  /\ net = [sig \in Signals |-> 0]
  /\ c1_instance = [kind |-> "None"]

\* the LUT at index i: (k, const_int)
CurK == verilog_luts[i + 1][1]
CurConst == verilog_luts[i + 1][2]

Init ==
  /\ pc = "start"
  /\ \E cat \in Catalogs : c1_base = cat[1] /\ c2_base = cat[2]
  /\ c1_configs = {}
  /\ c2_configs = {}
  /\ verilog_luts = << >>
  /\ i = 0
  /\ assignments = << >>
  /\ tried = 0
  /\ expanded = {}
  /\ found_c1 = FALSE
  /\ found_c2 = FALSE
  /\ c1_match = FALSE
  /\ c2_match = FALSE
  /\ c1_count = 0
  /\ c2_count = 0
  /\ both_count = 0
  /\ total_configs = 0
  /\ non_count = 0
  /\ checks_c1 = 0
  /\ checks_c2 = 0
  /\ FlowIdle

\* lines 145-149
GenerateConfigs ==
  /\ pc = "start"
  /\ c1_configs' = generate_module_configurations(c1_base)
  /\ c2_configs' = generate_module_configurations(c2_base)
  /\ pc' = "parse"
  /\ UNCHANGED flowvars
  /\ UNCHANGED << c1_base, c2_base, verilog_luts, i, assignments, tried, expanded,
                  found_c1, found_c2, c1_match, c2_match, c1_count, c2_count,
                  both_count, total_configs, non_count, checks_c1, checks_c2 >>

\* lines 159-169
ParseLuts ==
  /\ pc = "parse"
  /\ \E luts \in Batches(Candidates(c1_base), MaxBatch) :
       /\ verilog_luts' = luts
       /\ pc' = IF luts = << >> THEN "done" ELSE "loop"
  /\ c1_count' = 0
  /\ c2_count' = 0
  /\ both_count' = 0
  /\ total_configs' = 0
  /\ i' = 0
  /\ UNCHANGED flowvars
  /\ UNCHANGED << c1_base, c2_base, c1_configs, c2_configs, assignments, tried,
                  expanded, found_c1, found_c2, c1_match, c2_match, non_count,
                  checks_c1, checks_c2 >>

\* the all-ones table written without the - 1: (1 << 256)
constant_expansion_shifted(const_int) ==
  IF BitOf(const_int, 0) = 1 THEN {2 ^ NumWires} ELSE {}

\* expanded = (1 << 256) - 1 if const_int & 1 else 0
constant_expansion(const_int) == IF BitOf(const_int, 0) = 1 THEN AllOnes ELSE {}

\* lines 174-185
ConstantLut ==
  /\ pc = "loop"
  /\ i < Len(verilog_luts)
  /\ CurK = 0
  /\ LET e == constant_expansion(CurConst)
         m1 == e \in c1_configs
         m2 == e \in c2_configs
     IN /\ expanded' = e
        /\ c1_match' = m1
        /\ c2_match' = m2
        /\ both_count' = IF m1 /\ m2 THEN both_count + 1 ELSE both_count
        /\ c1_count' = IF m1 THEN c1_count + 1 ELSE c1_count
        /\ c2_count' = IF m2 THEN c2_count + 1 ELSE c2_count
  /\ i' = i + 1
  /\ UNCHANGED flowvars
  /\ UNCHANGED << pc, c1_base, c2_base, c1_configs, c2_configs, verilog_luts,
                  assignments, tried, found_c1, found_c2, total_configs, non_count,
                  checks_c1, checks_c2 >>

\* placements one wire longer than the LUT is wide
assignments_one_wider(k) == permutations(Wires, k + 1)

\* assignments = list(itertools.permutations(range(8), k))
assignments_of(k) == permutations(Wires, k)

\* a LUT wider than the wires ends the run instead of being passed over
StartSearchAbortsOnWide ==
  /\ pc = "loop"
  /\ i < Len(verilog_luts)
  /\ CurK # 0
  /\ LET a == permutations(Wires, CurK)
     IN /\ assignments' = a
        /\ total_configs' = total_configs + Len(a)
        /\ pc' = IF CurK > NumWires THEN "done"
                 ELSE IF a = << >> THEN "tally" ELSE "search"
  /\ found_c1' = FALSE
  /\ found_c2' = FALSE
  /\ tried' = 0
  /\ checks_c1' = 0
  /\ checks_c2' = 0
  /\ UNCHANGED flowvars
  /\ UNCHANGED << c1_base, c2_base, c1_configs, c2_configs, verilog_luts, i,
                  expanded, c1_match, c2_match, c1_count, c2_count, both_count,
                  non_count >>

\* lines 187-191, and the for statement finding the list empty
StartSearch ==
  /\ pc = "loop"
  /\ i < Len(verilog_luts)
  /\ CurK # 0
  /\ LET a == assignments_of(CurK)
     IN /\ assignments' = a
        /\ total_configs' = total_configs + Len(a)
        /\ pc' = IF a = << >> THEN "tally" ELSE "search"
  /\ found_c1' = FALSE
  /\ found_c2' = FALSE
  /\ tried' = 0
  /\ checks_c1' = 0
  /\ checks_c2' = 0
  /\ UNCHANGED flowvars
  /\ UNCHANGED << c1_base, c2_base, c1_configs, c2_configs, verilog_luts, i,
                  expanded, c1_match, c2_match, c1_count, c2_count, both_count,
                  non_count >>

\* the guard left out: every placement is tested against every target
tests_always(found) == TRUE

\* a target is never tested
tests_never(found) == FALSE

\* "not found_c1": whether the membership test of line 196 / 198 is evaluated
tests_target(found) == ~found

\* the guard written without its not: "if found and expanded in configs"
resolve_guard_inverted(found, e, configs) ==
  IF found /\ e \in configs THEN TRUE ELSE found

\* "if not found and expanded in configs: found = True"
resolve(found, e, configs) ==
  IF tests_target(found) /\ e \in configs THEN TRUE ELSE found

\* the break left out
breaks_never(f1, f2) == FALSE

\* "if found_c1 and found_c2: break"
breaks(f1, f2) == f1 /\ f2

\* lines 193-201: one iteration of the assignment loop
TryAssignment ==
  /\ pc = "search"
  /\ tried < Len(assignments)
  /\ LET e == expand_k_lut(CurConst, CurK, assignments[tried + 1])
         f1 == resolve(found_c1, e, c1_configs)
         f2 == resolve(found_c2, e, c2_configs)
     IN /\ expanded' = e
        /\ found_c1' = f1
        /\ found_c2' = f2
        /\ checks_c1' = IF tests_target(found_c1) THEN checks_c1 + 1 ELSE checks_c1
        /\ checks_c2' = IF tests_target(found_c2) THEN checks_c2 + 1 ELSE checks_c2
        /\ tried' = tried + 1
        /\ pc' = IF breaks(f1, f2) \/ tried + 1 = Len(assignments)
                 THEN "tally" ELSE "search"
  /\ UNCHANGED flowvars
  /\ UNCHANGED << c1_base, c2_base, c1_configs, c2_configs, verilog_luts, i,
                  assignments, c1_match, c2_match, c1_count, c2_count, both_count,
                  total_configs, non_count >>

\* the branch of lines 203-210 a LUT takes; "none" changes no counter and is
\* what line 212 counts as not matching any
\* the tally as one if/elif chain that stops at the first flag set
classification_first_hit(f1, f2) ==
  IF f1 THEN "c1" ELSE IF f2 THEN "c2" ELSE "none"

classification(f1, f2) ==
  IF f1 /\ f2 THEN "both" ELSE IF f1 THEN "c1" ELSE IF f2 THEN "c2" ELSE "none"

\* the tally taking a matched table out of its orbit set
TallyConsumesMatch ==
  /\ pc = "tally"
  /\ LET c == classification(found_c1, found_c2)
     IN /\ both_count' = IF c = "both" THEN both_count + 1 ELSE both_count
        /\ c1_count' = IF c \in {"both", "c1"} THEN c1_count + 1 ELSE c1_count
        /\ c2_count' = IF c \in {"both", "c2"} THEN c2_count + 1 ELSE c2_count
  /\ c1_configs' = IF found_c1 THEN c1_configs \ {expanded} ELSE c1_configs
  /\ c2_configs' = IF found_c2 THEN c2_configs \ {expanded} ELSE c2_configs
  /\ i' = i + 1
  /\ pc' = "loop"
  /\ UNCHANGED flowvars
  /\ UNCHANGED << c1_base, c2_base, verilog_luts, assignments, tried, expanded,
                  found_c1, found_c2, c1_match, c2_match, total_configs,
                  non_count, checks_c1, checks_c2 >>

\* lines 203-210
Tally ==
  /\ pc = "tally"
  /\ LET c == classification(found_c1, found_c2)
     IN /\ both_count' = IF c = "both" THEN both_count + 1 ELSE both_count
        /\ c1_count' = IF c \in {"both", "c1"} THEN c1_count + 1 ELSE c1_count
        /\ c2_count' = IF c \in {"both", "c2"} THEN c2_count + 1 ELSE c2_count
  /\ i' = i + 1
  /\ pc' = "loop"
  /\ UNCHANGED flowvars
  /\ UNCHANGED << c1_base, c2_base, c1_configs, c2_configs, verilog_luts,
                  assignments, tried, expanded, found_c1, found_c2, c1_match,
                  c2_match, total_configs, non_count, checks_c1, checks_c2 >>

\* line 212
Finish ==
  /\ pc = "loop"
  /\ i = Len(verilog_luts)
  /\ non_count' = Len(verilog_luts) - (c1_count + c2_count - both_count)
  /\ pc' = "done"
  /\ UNCHANGED flowvars
  /\ UNCHANGED << c1_base, c2_base, c1_configs, c2_configs, verilog_luts, i,
                  assignments, tried, expanded, found_c1, found_c2, c1_match,
                  c2_match, c1_count, c2_count, both_count, total_configs,
                  checks_c1, checks_c2 >>

Next ==
  \/ GenerateConfigs
  \/ ParseLuts
  \/ ConstantLut
  \/ StartSearch
  \/ TryAssignment
  \/ Tally
  \/ Finish

Spec == Init /\ [][Next]_vars

(***************************************************************************)
(* expand_k_lut and the k == 0 expansion on their own: one call on a       *)
(* (constant, k, assignment) drawn from the placements the matcher         *)
(* enumerates and from constants both within and beyond the 2^k table      *)
(* bits.  verilog_luts holds the one LUT, assignments the one placement,   *)
(* expanded the value returned.                                            *)
(***************************************************************************)
\* the constants of width k the calls are made on: within the 2^k table bits,
\* and the same with bits set beyond them
ExpandConstants(k) ==
  LET top == (2 ^ k) - 1
      low == { {}, {0}, {top}, {m \in 0 .. top : m % 3 = 1} }
               \cup (IF k = NumWires THEN {ChainBase, PairBase} ELSE {})
  IN low \cup {c \cup {top + 1, top + 3} : c \in low}

ExpandInit ==
  /\ pc = "call"
  /\ c1_base = MuxBase
  /\ c2_base = MuxBase
  /\ c1_configs = {}
  /\ c2_configs = {}
  /\ \E k \in 0 .. NumWires :
       \E c \in ExpandConstants(k) :
         \E n \in 1 .. Len(assignments_of(k)) :
           /\ verilog_luts = << <<k, c>> >>
           /\ assignments = << assignments_of(k)[n] >>
  /\ i = 0
  /\ tried = 0
  /\ expanded = {}
  /\ found_c1 = FALSE
  /\ found_c2 = FALSE
  /\ c1_match = FALSE
  /\ c2_match = FALSE
  /\ c1_count = 0
  /\ c2_count = 0
  /\ both_count = 0
  /\ total_configs = 0
  /\ non_count = 0
  /\ checks_c1 = 0
  /\ checks_c2 = 0
  /\ FlowIdle

\* expanded = expand_k_lut(const_int, k, assignment)
ExpandCall ==
  /\ pc = "call"
  /\ CurK # 0
  /\ expanded' = expand_k_lut(CurConst, CurK, assignments[1])
  /\ tried' = 1
  /\ pc' = "returned"
  /\ UNCHANGED flowvars
  /\ UNCHANGED << c1_base, c2_base, c1_configs, c2_configs, verilog_luts, i,
                  assignments, found_c1, found_c2, c1_match, c2_match, c1_count,
                  c2_count, both_count, total_configs, non_count, checks_c1,
                  checks_c2 >>

\* expanded = (1 << 256) - 1 if const_int & 1 else 0
ConstantCall ==
  /\ pc = "call"
  /\ CurK = 0
  /\ expanded' = constant_expansion(CurConst)
  /\ pc' = "returned"
  /\ UNCHANGED flowvars
  /\ UNCHANGED << c1_base, c2_base, c1_configs, c2_configs, verilog_luts, i,
                  assignments, tried, found_c1, found_c2, c1_match, c2_match,
                  c1_count, c2_count, both_count, total_configs, non_count,
                  checks_c1, checks_c2 >>

ExpandNext ==
  \/ ExpandCall
  \/ ConstantCall

ExpandSpec == ExpandInit /\ [][ExpandNext]_vars

(***************************************************************************)
(* new_flow.py: map_lut2_to_c1 rewrites one $lut instance as a c1 cell.    *)
(* A LUT instance is a record: value is the .LUT literal as (prefix,       *)
(* number), width the number in .WIDTH(32'dN), inputs the .A expression:   *)
(* a concatenation {s1, s2, ...}, a bus slice base[hi:lo], or one signal.  *)
(***************************************************************************)
\* bit n of a number
NumBit(config, n) == (config \div (2 ^ n)) % 2

\* the value literals handed over
LutValues ==
  {[prefix |-> "4'h", config |-> c] : c \in 0 .. 15}
    \cup {[prefix |-> "2'h", config |-> c] : c \in 0 .. 3}
    \cup {[prefix |-> "4'd", config |-> 9]}

\* the .A expressions handed over
LutInputs ==
  { [form |-> "concat", signals |-> << <<"a", -1>>, <<"b", -1>> >>,
     base |-> "", hi |-> 0, lo |-> 0],
    [form |-> "concat", signals |-> << <<"b", -1>>, <<"a", -1>>, <<"x", 0>> >>,
     base |-> "", hi |-> 0, lo |-> 0],
    [form |-> "single", signals |-> << <<"a", -1>> >>,
     base |-> "", hi |-> 0, lo |-> 0] }
    \cup {[form |-> "slice", signals |-> << >>, base |-> "x", hi |-> h, lo |-> l] :
            h \in 0 .. 2, l \in 0 .. 2}

\* b1, b2, b3, b4 of the literal, or the empty tuple for None
extract_lut2_config(lut_value) ==
  IF lut_value.prefix = "4'h"
  THEN << NumBit(lut_value.config, 0), NumBit(lut_value.config, 1),
          NumBit(lut_value.config, 2), NumBit(lut_value.config, 3) >>
  ELSE << >>

\* [f"{base}[{i}]" for i in range(lo, hi+1)]
slice_signals(inputs) ==
  [n \in 1 .. (inputs.hi + 1 - inputs.lo) |-> <<inputs.base, inputs.lo + n - 1>>]

\* input_signals, or the empty tuple where the function returns None
input_signals(inputs) ==
  IF inputs.form = "concat" THEN inputs.signals
  ELSE IF inputs.form = "slice" THEN slice_signals(inputs)
  ELSE << >>

\* the LUT1 branch: an assign statement
map_lut1(lut_info_arg) ==
  LET b0 == NumBit(lut_info_arg.value.config, 0)
      b1 == NumBit(lut_info_arg.value.config, 1)
  IN IF b0 = 0 /\ b1 = 1 THEN [kind |-> "assign", expr |-> "input"]
     ELSE IF b0 = 1 /\ b1 = 0 THEN [kind |-> "assign", expr |-> "~input"]
     ELSE IF b0 = 0 /\ b1 = 0 THEN [kind |-> "assign", expr |-> "1'b0"]
     ELSE [kind |-> "assign", expr |-> "1'b1"]

map_lut2_to_c1(lut_info_arg) ==
  IF lut_info_arg.width = 1 /\ lut_info_arg.value.prefix = "2'h"
  THEN map_lut1(lut_info_arg)
  ELSE IF lut_info_arg.width # 2 THEN [kind |-> "None"]
  ELSE LET config == extract_lut2_config(lut_info_arg.value)
           sigs == input_signals(lut_info_arg.inputs)
       IN IF config = << >> THEN [kind |-> "None"]
          ELSE IF lut_info_arg.inputs.form \notin {"concat", "slice"}
          THEN [kind |-> "None"]
          ELSE IF Len(sigs) # 2 THEN [kind |-> "None"]
          ELSE LET a_signal == sigs[1]
                   b_signal == sigs[2]
               IN [kind |-> "c1",
                   A0 |-> config[3], A1 |-> config[4], SA |-> b_signal,
                   B0 |-> config[1], B1 |-> config[2], SB |-> b_signal,
                   S0 |-> a_signal, S1 |-> a_signal]

\* module c1: f1 = SA ? A1 : A0, f2 = SB ? B1 : B0, s2 = !(S0 | S1),
\* f = s2 ? f2 : f1
c1_f(A0, A1, SA, B0, B1, SB, S0, S1) ==
  LET f1 == IF SA = 1 THEN A1 ELSE A0
      f2 == IF SB = 1 THEN B1 ELSE B0
      s2 == ~(S0 = 1 \/ S1 = 1)
  IN IF s2 THEN f2 ELSE f1

FlowInit ==
  /\ pc = "map"
  /\ c1_base = MuxBase
  /\ c2_base = MuxBase
  /\ c1_configs = {}
  /\ c2_configs = {}
  /\ verilog_luts = << >>
  /\ i = 0
  /\ assignments = << >>
  /\ tried = 0
  /\ expanded = {}
  /\ found_c1 = FALSE
  /\ found_c2 = FALSE
  /\ c1_match = FALSE
  /\ c2_match = FALSE
  /\ c1_count = 0
  /\ c2_count = 0
  /\ both_count = 0
  /\ total_configs = 0
  /\ non_count = 0
  /\ checks_c1 = 0
  /\ checks_c2 = 0
  /\ \E w \in 1 .. 3 :
       \E v \in LutValues :
         \E inp \in LutInputs :
           lut_info = [value |-> v, width |-> w, inputs |-> inp]
  /\ net \in [Signals -> {0, 1}]
  /\ c1_instance = [kind |-> "None"]

\* c1_instance = map_lut2_to_c1(lut_info)
MapLut ==
  /\ pc = "map"
  /\ c1_instance' = map_lut2_to_c1(lut_info)
  /\ pc' = "mapped"
  /\ UNCHANGED << lut_info, net >>
  /\ UNCHANGED << c1_base, c2_base, c1_configs, c2_configs, verilog_luts, i,
                  assignments, tried, expanded, found_c1, found_c2, c1_match,
                  c2_match, c1_count, c2_count, both_count, total_configs,
                  non_count, checks_c1, checks_c2 >>

FlowNext == MapLut

FlowSpec == FlowInit /\ [][FlowNext]_vars

(***************************************************************************)
(* Vocabulary of the properties: relabelings of the wires as bijections,   *)
(* placements as injective maps, and the function a placed LUT computes.   *)
(***************************************************************************)
RECURSIVE Factorial(_)
Factorial(n) == IF n <= 0 THEN 1 ELSE n * Factorial(n - 1)

\* the bijections of the wire positions
WirePerms == {f \in [Wires -> Wires] : \A a, b \in Wires : f[a] = f[b] => a = b}

Identity == [w \in Wires |-> w]

Inverse(f) == [j \in Wires |-> CHOOSE w \in Wires : f[w] = j]

\* the address whose bit at wire j is bits[j], for the wires from j up
RECURSIVE AddrOfBits(_, _)
AddrOfBits(bits, j) ==
  IF j = NumWires THEN 0 ELSE bits[j] * (2 ^ j) + AddrOfBits(bits, j + 1)

\* the table whose bit at an address a is the bit of t at the address that
\* reads, at each wire j, wire f[j] of a
Relabel(t, f) ==
  {a \in Addrs : AddrOfBits([j \in Wires |-> AddrBit(a, f[j])], 0) \in t}

\* t and b are the same function up to a relabeling of the wires
PermEquivalent(t, b) == \E f \in WirePerms : t = Relabel(b, f)

\* the relabelings of b
Orbit(b) == {Relabel(b, f) : f \in WirePerms}

\* the orbits of the bases the runs start from, computed once
OrbitOf == [b \in {cat[n] : cat \in Catalogs, n \in 1 .. 2} |-> Orbit(b)]

\* the injective assignments of k inputs to wire positions, by width
PlacementsOfWidth ==
  [k \in 0 .. NumWires + 1 |->
     {pl \in [1 .. k -> Wires] : \A m, n \in 1 .. k : pl[m] = pl[n] => m = n}]

Placements(k) == PlacementsOfWidth[k]

\* the address a with every wire outside the placement read as 0
TiedLow(a, pl) ==
  AddrOfBits([j \in Wires |-> IF \E n \in DOMAIN pl : pl[n] = j
                              THEN AddrBit(a, j) ELSE 0], 0)

\* the index of the LUT's output bit when input n reads bit[n]
RECURSIVE LutIndex(_, _)
LutIndex(bit, n) ==
  IF n > Len(bit) THEN 0 ELSE bit[n] * (2 ^ (n - 1)) + LutIndex(bit, n + 1)

\* the function of the wires that the LUT (k, constant) computes when its
\* input n is on wire pl[n] and the other wires are tied to 0
Realised(k, constant, pl) ==
  {a \in Addrs :
     LutIndex([n \in 1 .. k |-> AddrBit(TiedLow(a, pl), pl[n])], 1) \in constant}

\* the functions a LUT realises over all its placements, computed once for
\* each LUT the runs process
RealisedTables ==
  [lut \in UNION {Candidates(cat[1]) : cat \in Catalogs} |->
     {Realised(lut[1], lut[2], pl) : pl \in Placements(lut[1])}]

\* some placement of the LUT gives a function equivalent to the base
Realisable(k, constant, base) ==
  \E t \in RealisedTables[<<k, constant>>] : t \in OrbitOf[base]

\* the LUT processed just before the loop returned to its head
PrevK == verilog_luts[i][1]
PrevConst == verilog_luts[i][2]

(***************************************************************************)
(* Properties                                                              *)
(***************************************************************************)

\* C1: for 1 <= k <= NumWires the search reports the LUT as matching a cell
\* if and only if some injective placement of its k inputs, the other wires
\* tied to 0, gives a function that is a relabeling of the cell's base.
C1_MatchIffRealisable ==
  (pc = "tally" /\ CurK \in 1 .. NumWires) =>
    /\ found_c1 = Realisable(CurK, CurConst, c1_base)
    /\ found_c2 = Realisable(CurK, CurConst, c2_base)

C1_Witness ==
  /\ pc = "tally"
  /\ CurK = 2
  /\ found_c1
  /\ ~found_c2
  /\ tried = Len(assignments)

\* C2: the generated set is closed under relabeling: relabeling any member
\* by any bijection of the wires gives a member.
C2_OrbitClosed ==
  pc = "parse" =>
    /\ \A t \in c1_configs : \A f \in WirePerms : Relabel(t, f) \in c1_configs
    /\ \A t \in c2_configs : \A f \in WirePerms : Relabel(t, f) \in c2_configs

C2_Witness ==
  /\ pc = "parse"
  /\ \E t \in c1_configs : \E f \in WirePerms : Relabel(t, f) # t

\* C3: the generated set is exactly the set of tables T_p, p a bijection of
\* the wires, where bit newAddr of T_p is bit oldAddr of the base and bit j
\* of oldAddr is bit p^-1(j) of newAddr.
C3_OrbitExact ==
  pc = "parse" =>
    /\ c1_configs = {Relabel(c1_base, Inverse(p)) : p \in WirePerms}
    /\ c2_configs = {Relabel(c2_base, Inverse(p)) : p \in WirePerms}

C3_Witness ==
  /\ pc = "parse"
  /\ c1_base \in c1_configs
  /\ Addrs \ c1_base \notin c1_configs
  /\ Cardinality(c1_configs) > 1

\* some two wires are interchangeable in b
HasInterchangeableWires(b) ==
  \E u, v \in Wires :
    /\ u # v
    /\ Relabel(b, [w \in Wires |-> IF w = u THEN v ELSE IF w = v THEN u ELSE w]) = b

\* C4 as stated: the set has at most NumWires! members, and exactly that many
\* if and only if no two wires are interchangeable in the base.
FullSizeIffNoInterchange(configs, base) ==
  /\ Cardinality(configs) <= Factorial(NumWires)
  /\ (Cardinality(configs) = Factorial(NumWires)) <=> ~HasInterchangeableWires(base)

C4_SizeIffNoInterchange ==
  pc = "parse" =>
    /\ FullSizeIffNoInterchange(c1_configs, c1_base)
    /\ FullSizeIffNoInterchange(c2_configs, c2_base)

\* C4 amended: the set has at most NumWires! members, and exactly that many
\* if and only if no relabeling other than the identity leaves the base
\* unchanged; a full-size set has no two interchangeable wires.
FullSizeIffNoSymmetry(configs, base) ==
  /\ Cardinality(configs) <= Factorial(NumWires)
  /\ (Cardinality(configs) = Factorial(NumWires))
       <=> (\A f \in WirePerms : Relabel(base, f) = base => f = Identity)
  /\ (Cardinality(configs) = Factorial(NumWires)) => ~HasInterchangeableWires(base)

C4_SizeIffNoSymmetry ==
  pc = "parse" =>
    /\ FullSizeIffNoSymmetry(c1_configs, c1_base)
    /\ FullSizeIffNoSymmetry(c2_configs, c2_base)

C4_Witness ==
  /\ pc = "parse"
  /\ Cardinality(c1_configs) = Factorial(NumWires)
  /\ ~HasInterchangeableWires(c1_base)

\* C5: a LUT of full width whose constant is a cell's own base table is
\* reported as matching that cell.
C5_OwnTableMatches ==
  (pc = "tally" /\ CurK = NumWires) =>
    /\ (CurConst = c1_base => found_c1)
    /\ (CurConst = c2_base => found_c2)

C5_Witness ==
  /\ pc = "tally"
  /\ CurK = NumWires
  /\ CurConst = c1_base
  /\ found_c1
  /\ expanded = c1_base

\* C6: a LUT wider than the wires is rejected: it ends with an outcome of its
\* own, other than the ordinary "matches no cell".
C6_WideLutIsSetApart ==
  (pc = "tally" /\ CurK > NumWires) => classification(found_c1, found_c2) # "none"

\* a LUT wider than the wires has been through the search: it had no
\* placement, was never expanded or tested, and takes the branch of a LUT
\* that matches no cell
C6_Witness ==
  /\ pc = "tally"
  /\ CurK = NumWires + 1
  /\ assignments = << >>
  /\ tried = 0
  /\ classification(found_c1, found_c2) = "none"

\* some placement of the LUT expands to a member of the set
MatchesSome(k, constant, configs) ==
  \E t \in RealisedTables[<<k, constant>>] : t \in configs

\* C7: the verdict on a LUT of width 0..NumWires depends on that LUT and the
\* generated sets alone, whatever else the batch holds, and the run ends
\* only after every LUT of the batch has been processed.
C7_WideLutsLeaveOthersAlone ==
  /\ (pc = "tally" /\ CurK <= NumWires) =>
       /\ found_c1 = MatchesSome(CurK, CurConst, c1_configs)
       /\ found_c2 = MatchesSome(CurK, CurConst, c2_configs)
  /\ (pc = "loop" /\ i >= 1 /\ PrevK = 0) =>
       /\ c1_match = MatchesSome(0, PrevConst, c1_configs)
       /\ c2_match = MatchesSome(0, PrevConst, c2_configs)
  /\ pc \in {"search", "tally"} => i < Len(verilog_luts)
  /\ pc = "done" => i = Len(verilog_luts)

C7_Witness ==
  /\ pc = "tally"
  /\ i >= 1
  /\ PrevK > NumWires
  /\ CurK \in 1 .. NumWires
  /\ found_c1

\* C8: a LUT of width 0 is processed without any placement: the one table
\* tested is all ones if bit 0 of its constant is 1 and all zeros otherwise,
\* and it is counted for a cell exactly when that table is a relabeling of
\* the cell's base.
C8_ConstantLutTestsOneTable ==
  [][(pc = "loop" /\ i < Len(verilog_luts) /\ CurK = 0) =>
       LET table == IF 0 \in CurConst THEN Addrs ELSE {}
           in1 == PermEquivalent(table, c1_base)
           in2 == PermEquivalent(table, c2_base)
       IN /\ expanded' = table
          /\ assignments' = assignments
          /\ tried' = tried
          /\ total_configs' = total_configs
          /\ checks_c1' = checks_c1
          /\ checks_c2' = checks_c2
          /\ c1_match' = in1
          /\ c2_match' = in2
          /\ c1_count' = c1_count + (IF in1 THEN 1 ELSE 0)
          /\ c2_count' = c2_count + (IF in2 THEN 1 ELSE 0)
          /\ i' = i + 1
          /\ pc' = "loop"]_vars

C8_Witness ==
  /\ pc = "loop"
  /\ i >= 1
  /\ PrevK = 0
  /\ expanded = Addrs
  /\ ~c1_match
  /\ c2_match
  /\ c2_count = 1

\* C9: during a search a resolved target stays resolved and is not tested
\* again; an unresolved target is tested once per placement, so the tests
\* made against a target number the placements tried up to its resolution.
C9_ResolvedTargetNotRetested ==
  [][pc = "search" =>
       /\ found_c1 => (found_c1' /\ checks_c1' = checks_c1)
       /\ found_c2 => (found_c2' /\ checks_c2' = checks_c2)
       /\ ~found_c1 => checks_c1' = tried'
       /\ ~found_c2 => checks_c2' = tried'
       /\ i' = i]_vars

C9_Witness ==
  /\ pc = "search"
  /\ found_c1
  /\ ~found_c2
  /\ checks_c1 = 1
  /\ tried > 2

Larger(m, n) == IF m >= n THEN m ELSE n

\* C10: the search of a LUT goes on only while a target is unresolved; it
\* ends at the placement that resolves the last target, and otherwise only
\* after all NumWires!/(NumWires-k)! placements have been tried.
C10_SearchStopsWhenAllResolved ==
  /\ pc = "search" => (~(found_c1 /\ found_c2) /\ tried < Len(assignments))
  /\ (pc = "tally" /\ found_c1 /\ found_c2) =>
       tried = Larger(checks_c1, checks_c2)
  /\ (pc = "tally" /\ ~(found_c1 /\ found_c2) /\ CurK <= NumWires) =>
       /\ tried = Len(assignments)
       /\ Len(assignments) = Factorial(NumWires) \div Factorial(NumWires - CurK)

C10_Witness ==
  /\ pc = "tally"
  /\ found_c1
  /\ found_c2
  /\ tried < Len(assignments)

\* the constant reduced modulo 2^(2^k): its low 2^k bits
LowBits(constant, k) == constant \cap (0 .. ((2 ^ k) - 1))

\* C11: a constant wider than its width is masked: the expansion of any
\* constant under any placement is the expansion of its low 2^k bits, and
\* for k = 0 it depends on bit 0 alone.
C11_WideConstantIsMasked ==
  pc = "returned" =>
    IF CurK = 0
    THEN expanded = (IF 0 \in CurConst THEN Addrs ELSE {})
    ELSE expanded = expand_k_lut(LowBits(CurConst, CurK), CurK, assignments[1])

C11_Witness ==
  /\ pc = "returned"
  /\ CurK = 2
  /\ CurConst # LowBits(CurConst, CurK)
  /\ expanded # {}
  /\ expanded # Addrs

\* C12: the two orbit sets are computed exactly once, in the step that
\* leaves the start of main and before any candidate has been read; no later
\* step returns to that point or changes either set.
C12_OrbitsComputedOnce ==
  [][IF pc = "start"
     THEN /\ verilog_luts = << >>
          /\ i = 0
          /\ c1_configs = {}
          /\ c2_configs = {}
          /\ c1_configs' = OrbitOf[c1_base]
          /\ c2_configs' = OrbitOf[c2_base]
          /\ pc' = "parse"
     ELSE /\ pc' # "start"
          /\ c1_configs' = c1_configs
          /\ c2_configs' = c2_configs]_vars

C12_Witness ==
  /\ pc = "search"
  /\ i >= 1
  /\ tried >= 1
  /\ found_c1
  /\ c1_configs = OrbitOf[c1_base]
  /\ c2_configs = OrbitOf[c2_base]

\* two addresses carry the same bits on every wire of the placement
AgreeOnPlaced(a1, a2, pl) ==
  \A n \in DOMAIN pl : AddrBit(a1, pl[n]) = AddrBit(a2, pl[n])

\* C13: the wires outside the placement are don't-cares of the expansion:
\* addresses that agree on the placed wires carry the same bit, and that bit
\* is the constant's bit at the index whose bit n-1 is the address bit on the
\* wire of input n.
C13_UnplacedWiresAreDontCares ==
  (pc = "returned" /\ CurK # 0) =>
    LET pl == assignments[1]
    IN \A a1 \in Addrs :
         /\ (a1 \in expanded) <=>
              (LutIndex([n \in 1 .. CurK |-> AddrBit(a1, pl[n])], 1) \in CurConst)
         /\ \A a2 \in Addrs :
              AgreeOnPlaced(a1, a2, pl) => (a1 \in expanded <=> a2 \in expanded)

C13_Witness ==
  /\ pc = "returned"
  /\ CurK = 2
  /\ assignments[1] = <<3, 1>>
  /\ expanded = {a \in Addrs : AddrBit(a, 3) = 1 /\ AddrBit(a, 1) = 0}

\* a is the inverse of the permutation p: a sends p[w] back to w
IsInverseOf(a, p) == \A w \in Wires : a[p[w + 1] + 1] = w

\* C14: at full width the expansion of a table under a placement a is the
\* table the orbit generator builds for the permutation whose inverse is a;
\* the placements enumerated are the generator's permutations, so the
\* full-width expansions of a table are exactly its orbit.
C14_FullWidthExpansionIsRelabeling ==
  (pc = "returned" /\ CurK = NumWires) =>
    LET a == assignments[1]
        every == assignments_of(NumWires)
    IN /\ \E n \in 1 .. Len(GeneratorPermutations) :
            IsInverseOf(a, GeneratorPermutations[n])
       /\ \A n \in 1 .. Len(GeneratorPermutations) :
            IsInverseOf(a, GeneratorPermutations[n]) =>
              expanded = perm_int(CurConst, GeneratorPermutations[n])
       /\ a = every[1] =>
            {expand_k_lut(CurConst, NumWires, every[n]) : n \in 1 .. Len(every)}
              = generate_module_configurations(CurConst)

C14_Witness ==
  /\ pc = "returned"
  /\ CurK = NumWires
  /\ CurConst = ChainBase
  /\ assignments[1][1] = 1
  /\ assignments[1][2] = 2
  /\ assignments[1][3] = 0
  /\ expanded # ChainBase

\* C15: whenever the matcher calls expand_k_lut, the index it assembles lies
\* in 0 .. 2^k - 1 at every address, so the branch that writes 0 for an
\* out-of-range index is never taken.
C15_IndexWithinTable ==
  pc = "search" =>
    /\ Len(assignments[tried + 1]) = CurK
    /\ \A addr \in Addrs :
         /\ index_of(addr, assignments[tried + 1]) >= 0
         /\ index_of(addr, assignments[tried + 1]) < 2 ^ CurK

C15_Witness ==
  /\ pc = "search"
  /\ tried >= 1
  /\ CurK = 2
  /\ \E addr \in Addrs : index_of(addr, assignments[tried + 1]) = (2 ^ CurK) - 1

\* the LUTs and bases the runs draw from
RunLuts == UNION {Candidates(cat[1]) : cat \in Catalogs}
RunBases == {cat[n] : cat \in Catalogs, n \in 1 .. 2}

\* the entry of a table of (key, value) pairs under a key
Lookup(table, key) == (CHOOSE entry \in table : entry[1] = key)[2]

\* the orbit set generated for each base, computed once
GeneratedOf == {<<b, generate_module_configurations(b)>> : b \in RunBases}

\* the expansions of each LUT over the whole enumeration of its placements,
\* computed once
ExpansionsOf ==
  {<<lut, LET every == assignments_of(lut[1])
          IN {expand_k_lut(lut[2], lut[1], every[n]) : n \in 1 .. Len(every)}>> :
     lut \in RunLuts}

\* the expansion of each LUT of width 1 .. NumWires under the first
\* placement tried, computed once
FirstExpansionOf ==
  {<<lut, expand_k_lut(lut[2], lut[1], assignments_of(lut[1])[1])>> :
     lut \in {l \in RunLuts : l[1] \in 1 .. NumWires}}

\* for each LUT and base, the membership answers the LUT's expansions give
\* against the base's generated orbit set; computed once
PlacementVerdicts ==
  {<< <<ex[1], gen[1]>>, {(t \in gen[2]) : t \in ex[2]} >> :
     ex \in ExpansionsOf, gen \in GeneratedOf}

\* C16: for 1 <= k <= NumWires the placement has no influence on the
\* verdict: all placements of a LUT give the same membership answer against
\* an orbit set, and the search ends with the answer of the first placement.
C16_PlacementDoesNotMatter ==
  (pc = "tally" /\ CurK \in 1 .. NumWires) =>
    LET lut == <<CurK, CurConst>>
    IN /\ Cardinality(Lookup(PlacementVerdicts, <<lut, c1_base>>)) = 1
       /\ Cardinality(Lookup(PlacementVerdicts, <<lut, c2_base>>)) = 1
       /\ found_c1 <=> (Lookup(FirstExpansionOf, lut) \in c1_configs)
       /\ found_c2 <=> (Lookup(FirstExpansionOf, lut) \in c2_configs)

C16_Witness ==
  /\ pc = "tally"
  /\ CurK = 2
  /\ tried = 1
  /\ found_c1
  /\ found_c2
  /\ Lookup(PlacementVerdicts, << <<CurK, CurConst>>, c1_base >>) = {TRUE}

\* the table t over the addresses addrs changes with wire w somewhere
UsesWire(t, w, addrs) ==
  \E a \in addrs :
    AddrBit(a, w) = 0 /\ ((a \in t) # ((a + 2 ^ w) \in t))

\* t changes with every wire of the run
UsesEveryWire(t) == \A w \in Wires : UsesWire(t, w, Addrs)

\* c1 and c2 as the source builds them change with each of their 8 wires
SourceCellsUseEveryWire ==
  \A w \in 0 .. (SourceWires - 1) :
    /\ UsesWire(generate_c1_base_truth_table, w, SourceAddrs)
    /\ UsesWire(generate_c2_base_truth_table, w, SourceAddrs)

\* C17: a LUT narrower than the wire count never matches a cell that uses
\* every wire, as c1 and c2 do: each member of such a cell's orbit uses
\* every wire, each expansion with fewer inputs than wires is independent
\* of some wire, and the flags of the cell stay false.
C17_NarrowLutNeverMatchesFullCell ==
  /\ SourceCellsUseEveryWire
  /\ pc = "parse" =>
       /\ UsesEveryWire(c1_base) => \A t \in c1_configs : UsesEveryWire(t)
       /\ UsesEveryWire(c2_base) => \A t \in c2_configs : UsesEveryWire(t)
  /\ (pc \in {"search", "tally"} /\ tried >= 1 /\ CurK < NumWires) =>
       \E w \in Wires : ~UsesWire(expanded, w, Addrs)
  /\ (pc = "tally" /\ CurK < NumWires) =>
       /\ UsesEveryWire(c1_base) => ~found_c1
       /\ UsesEveryWire(c2_base) => ~found_c2
  /\ (pc = "loop" /\ i >= 1 /\ PrevK = 0) =>
       /\ UsesEveryWire(c1_base) => ~c1_match
       /\ UsesEveryWire(c2_base) => ~c2_match

C17_Witness ==
  /\ pc = "tally"
  /\ i >= 1
  /\ PrevK = 0
  /\ CurK = 2
  /\ UsesEveryWire(c1_base)
  /\ UsesEveryWire(c2_base)
  /\ tried = Len(assignments)
  /\ ~found_c1
  /\ ~found_c2
  /\ ~c1_match

\* an exhaustive search finds the cell: some placement of the whole
\* enumeration gives an expansion in the cell's generated orbit set
ExhaustiveMatch(lut, base) == TRUE \in Lookup(PlacementVerdicts, <<lut, base>>)

\* C18: the early exit never changes the verdict: when the loop over the
\* placements ends, by break or by exhaustion, the targets it has matched
\* are those a search over all the placements matches.
C18_EarlyExitKeepsVerdict ==
  pc = "tally" =>
    /\ found_c1 <=> ExhaustiveMatch(<<CurK, CurConst>>, c1_base)
    /\ found_c2 <=> ExhaustiveMatch(<<CurK, CurConst>>, c2_base)

C18_Witness ==
  /\ pc = "tally"
  /\ tried >= 1
  /\ tried < Len(assignments)
  /\ found_c1
  /\ found_c2
  /\ ExhaustiveMatch(<<CurK, CurConst>>, c1_base)

\* LUT n of the batch matches the cell whose base is given
LutMatches(n, base) ==
  MatchesSome(verilog_luts[n][1], verilog_luts[n][2], OrbitOf[base])

\* how many of the first m LUTs of the batch match c1 (want1) and c2 (want2)
\* in the given way
CountOf(m, want1, want2) ==
  Cardinality({n \in 1 .. m :
                 /\ want1 \in {"any", IF LutMatches(n, c1_base) THEN "yes" ELSE "no"}
                 /\ want2 \in {"any", IF LutMatches(n, c2_base) THEN "yes" ELSE "no"}})

\* C20: the counters stay consistent: after the LUTs processed so far
\* c1_count, c2_count and both_count are the numbers matching c1, c2 and
\* both, both_count is at most each of the other two, and at the end
\* non_count = N - (c1_count + c2_count - both_count) is non-negative and
\* is the number matching neither.
C20_CountersConsistent ==
  /\ pc \in {"loop", "done"} =>
       /\ c1_count = CountOf(i, "yes", "any")
       /\ c2_count = CountOf(i, "any", "yes")
       /\ both_count = CountOf(i, "yes", "yes")
       /\ both_count <= c1_count
       /\ both_count <= c2_count
  /\ pc = "done" =>
       /\ non_count = Len(verilog_luts) - (c1_count + c2_count - both_count)
       /\ non_count >= 0
       /\ non_count = CountOf(Len(verilog_luts), "no", "no")

C20_Witness ==
  /\ pc = "done"
  /\ Len(verilog_luts) = 2
  /\ both_count = 1
  /\ c1_count = 1
  /\ c2_count = 1
  /\ non_count = 1

\* the output of the original LUT2: the configuration bit at the index its
\* 2-bit input vector gives, the first operand of a concatenation, or
\* x[hi] of a slice, being the high bit
Lut2Output(info, values) ==
  LET inp == info.inputs
      msb == IF inp.form = "concat" THEN values[inp.signals[1]]
             ELSE values[<<inp.base, inp.hi>>]
      lsb == IF inp.form = "concat" THEN values[inp.signals[2]]
             ELSE values[<<inp.base, inp.lo>>]
  IN NumBit(info.value.config, 2 * msb + lsb)

\* the output of the c1 instance the mapping produced
InstanceOutput(inst, values) ==
  c1_f(inst.A0, inst.A1, values[inst.SA], inst.B0, inst.B1, values[inst.SB],
       values[inst.S0], values[inst.S1])

\* C19: the mapping of a LUT2 onto c1 preserves the function: for every
\* 4-bit configuration and both input forms, the instance produced gives
\* on every input the output of the original LUT.
C19_MappingPreservesFunction ==
  (pc = "mapped" /\ c1_instance.kind = "c1") =>
    InstanceOutput(c1_instance, net) = Lut2Output(lut_info, net)

\* a bus slice x[1:0] with configuration 4'h2 and x = 2'b01: the LUT gives
\* 1, the instance 0
C19_Witness ==
  /\ pc = "mapped"
  /\ c1_instance.kind = "c1"
  /\ lut_info.inputs.form = "slice"
  /\ lut_info.inputs.hi = 1
  /\ lut_info.inputs.lo = 0
  /\ lut_info.value.config = 2
  /\ net[<<"x", 1>>] = 0
  /\ net[<<"x", 0>>] = 1
  /\ Lut2Output(lut_info, net) = 1
  /\ InstanceOutput(c1_instance, net) = 0

\* every table of the set has as many 1 bits as the base
SameOnesAs(configs, base) ==
  \A t \in configs : Cardinality(t) = Cardinality(base)

\* C21: relabeling preserves the number of ones: every member of a
\* generated orbit set has as many 1 bits as its base, so the all-ones
\* (all-zeros) table is in the set only when the base is constant 1
\* (constant 0), and a LUT without inputs matches constant cells only.
C21_OnesPreserved ==
  /\ pc = "parse" =>
       /\ SameOnesAs(c1_configs, c1_base)
       /\ SameOnesAs(c2_configs, c2_base)
       /\ Addrs \in c1_configs => c1_base = Addrs
       /\ Addrs \in c2_configs => c2_base = Addrs
       /\ {} \in c1_configs => c1_base = {}
       /\ {} \in c2_configs => c2_base = {}
  /\ (pc = "loop" /\ i >= 1 /\ PrevK = 0) =>
       /\ c1_match => (c1_base = expanded /\ expanded \in {Addrs, {}})
       /\ c2_match => (c2_base = expanded /\ expanded \in {Addrs, {}})

C21_Witness ==
  /\ pc = "loop"
  /\ i >= 1
  /\ PrevK = 0
  /\ c2_match
  /\ ~c1_match
  /\ c2_base = Addrs
  /\ Cardinality(c1_configs) > 1
  /\ SameOnesAs(c1_configs, c1_base)

====
